---- MODULE Spec2Model ----
(***************************************************************************)
(* Model of the BPCells streaming minimum transforms                       *)
(* (src/src/matrixTransforms/Min.cpp) and of the statistics result         *)
(* accessors (src/src/matrixIterators/MatrixStats.cpp).                    *)
(*                                                                         *)
(* A chain of stages wraps a chunk source.  load() on the outermost stage  *)
(* descends to the source, which refills the shared chunk buffer, and each *)
(* stage clamps the values on the way back up.  The call stack is modelled *)
(* by pc/level: level k is the stage whose load() is executing (0 is the   *)
(* source), pc says whether control is descending or returning.            *)
(***************************************************************************)
EXTENDS Integers, Sequences, FiniteSets, TLC

\* ---------------------------------------------------------------- bounds
MaxVal == 1        \* finite doubles of the model are 0..MaxVal
MaxCap == 2        \* largest chunk capacity
MaxRow == 1        \* matrix rows are 0..MaxRow
MaxCol == 1        \* matrix columns are 0..MaxCol
MaxChain == 2      \* longest chain of stages over the source
MaxChunks == 2     \* most chunks a source emits
MaxLoads == 4      \* most load() calls the caller makes on the chain
MaxStatRows == 3   \* most rows of a statistics array
MaxWidth == 2      \* most columns of a statistics array
MaxStat == 1       \* statistic values are 0..MaxStat
MaxTranspose == 2  \* longest run of transpose() calls

\* ---------------------------------------------------------------- doubles
\* A double is a finite number or NaN; every comparison with NaN is false.
\* (+0.0 and -0.0 compare equal and are the one value 0 here.)
NaN == -1
Doubles == (0..MaxVal) \cup {NaN}

Less(a, b) == a # NaN /\ b # NaN /\ a < b
LessEq(a, b) == a # NaN /\ b # NaN /\ a <= b

\* std::min(a, b): b when b < a, else a
StdMin(a, b) == IF Less(b, a) THEN b ELSE a

Rows == 0..MaxRow
Cols == 0..MaxCol
Kinds == {"Min", "MinByRow", "MinByCol"}

VARIABLES
    loader,       \* loader[k] is the kind of stage k; stage k wraps stage k-1, 0 is the source
    fit,          \* the parameter provider: global_params, row_params, col_params
    valData,      \* the chunk's value array (length capacity)
    rowData,      \* the chunk's row index array (length capacity)
    capacity,     \* number of entries of the chunk
    currentCol,   \* column of the chunk
    emitted,      \* chunks the source has emitted so far
    exhausted,    \* the source has reported its end
    pc,           \* "idle", "call" (descending) or "ret" (returning)
    level,        \* stage whose load() is running
    ret,          \* value returned by the load() that returned last
    calls,        \* load() calls the caller has made on the chain
    successes,    \* of which returned true
    loads,        \* loads[k]: load() invocations of stage k during the current chain load
    applied,      \* stages that have mutated the chunk during the current chain load, in order
    before,       \* the chunk as the upstream load() left it to the stage that ran last
    lookups,      \* parameter lookups made by the stage that ran last
    upRet,        \* what the upstream load() returned to the stage that ran last
    srcChunk,     \* the chunk as the source emitted it last
    failed,       \* failed[k]: some load() of stage k has returned false
    fit0,         \* the parameter provider as constructed
    result,       \* a StatsResult: row_stats and col_stats
    result0,      \* that StatsResult as constructed
    derived,      \* the StatsResult the last transpose() returned
    transposes,   \* transpose() calls that lead from result to derived
    outcome       \* the last accessor call: its object, its name, what it threw or returned

chainVars == <<loader, fit, valData, rowData, capacity, currentCol, emitted, exhausted,
               pc, level, ret, calls, successes, loads, applied, before, lookups, upRet,
               srcChunk, failed, fit0>>

statsVars == <<result, result0, derived, transposes, outcome>>

vars == <<chainVars, statsVars>>

Chunk == [val |-> valData, row |-> rowData, cap |-> capacity, col |-> currentCol]

NoChunk == [val |-> <<>>, row |-> <<>>, cap |-> 0, col |-> 0]

Uses(ch, kind) == \E k \in 1..Len(ch) : ch[k] = kind

\* The provider holds a table for each binding mode some stage of the chain uses
\* (parameter index 0 only); the other tables are empty.
Fits(ch) ==
    [global_params : [IF Uses(ch, "Min") THEN {0} ELSE {} -> Doubles],
     row_params : [IF Uses(ch, "MinByRow") THEN {0} \X Rows ELSE {} -> Doubles],
     col_params : [IF Uses(ch, "MinByCol") THEN {0} \X Cols ELSE {} -> Doubles]]

Chains == UNION {[1..n -> Kinds] : n \in 1..MaxChain}

\* The chunks a source may emit next: columns never go back.
Chunks(fromCol) ==
    UNION {[val : [1..c -> Doubles], row : [1..c -> Rows], cap : {c}, col : fromCol..MaxCol]
           : c \in 0..MaxCap}

\* ---------------------------------------------------------------- statistics arrays
StatVals == 0..MaxStat

\* Eigen::ArrayXXd with r rows and c columns
ArrayXXd(r, c) == [rows : {r}, cols : {c}, coeff : [(0..(r - 1)) \X (0..(c - 1)) -> StatVals]]

Arrays == UNION {ArrayXXd(r, c) : r \in 0..MaxStatRows, c \in 1..MaxWidth}

NoArray == [rows |-> 0, cols |-> 0, coeff |-> [p \in {} |-> 0]]

\* a.row(i), as a 1 x cols array
RowOf(a, i) ==
    [rows |-> 1, cols |-> a.cols,
     coeff |-> [p \in {0} \X (0..(a.cols - 1)) |-> a.coeff[i, p[2]]]]

\* throw std::runtime_error(what)
Throw(what) == [threw |-> TRUE, what |-> what, value |-> NoArray]

Value(v) == [threw |-> FALSE, what |-> "", value |-> v]

NoStats == [row_stats |-> NoArray, col_stats |-> NoArray]

NoOutcome == [self |-> NoStats, name |-> "none", out |-> Value(NoArray)]

\* ---------------------------------------------------------------- the chain
Init ==
    /\ loader \in Chains
    /\ fit \in Fits(loader)
    /\ fit0 = fit
    /\ valData = <<>>
    /\ rowData = <<>>
    /\ capacity = 0
    /\ currentCol = 0
    /\ emitted = 0
    /\ exhausted = FALSE
    /\ pc = "idle"
    /\ level = 0
    /\ ret = FALSE
    /\ calls = 0
    /\ successes = 0
    /\ loads = [k \in 0..Len(loader) |-> 0]
    /\ applied = <<>>
    /\ before = NoChunk
    /\ lookups = 0
    /\ upRet = FALSE
    /\ srcChunk = NoChunk
    /\ failed = [k \in 0..Len(loader) |-> FALSE]
    /\ result = NoStats
    /\ result0 = NoStats
    /\ derived = NoStats
    /\ transposes = 0
    /\ outcome = NoOutcome

\* The caller calls load() on the outermost stage.
CallLoad ==
    /\ pc = "idle"
    /\ calls < MaxLoads
    /\ calls' = calls + 1
    /\ pc' = "call"
    /\ level' = Len(loader)
    /\ loads' = [k \in 0..Len(loader) |-> IF k = Len(loader) THEN 1 ELSE 0]
    /\ applied' = <<>>
    /\ UNCHANGED <<loader, fit, valData, rowData, capacity, currentCol, emitted, exhausted,
                   ret, successes, before, lookups, upRet, srcChunk, failed, fit0>>
    /\ UNCHANGED statsVars

\* The source's load(): the next chunk into the shared buffer, or false at its end
\* and ever after.
SourceLoad ==
    /\ pc = "call"
    /\ level = 0
    /\ \/ /\ ~exhausted
          /\ emitted < MaxChunks
          /\ \E c \in Chunks(currentCol) :
                /\ valData' = c.val
                /\ rowData' = c.row
                /\ capacity' = c.cap
                /\ currentCol' = c.col
                /\ srcChunk' = c
          /\ emitted' = emitted + 1
          /\ ret' = TRUE
          /\ UNCHANGED <<exhausted, failed>>
       \/ /\ exhausted' = TRUE
          /\ ret' = FALSE
          /\ failed' = [failed EXCEPT ![0] = TRUE]
          /\ UNCHANGED <<valData, rowData, capacity, currentCol, srcChunk, emitted>>
    /\ pc' = "ret"
    /\ level' = 1
    /\ UNCHANGED <<loader, fit, calls, successes, loads, applied, before, lookups, upRet, fit0>>
    /\ UNCHANGED statsVars

\* loader->load(): stage k invokes the load() of the loader it wraps.
CallUpstream(k) ==
    /\ pc' = "call"
    /\ level' = k - 1
    /\ loads' = [loads EXCEPT ![k - 1] = @ + 1]
    /\ UNCHANGED <<loader, fit, valData, rowData, capacity, currentCol, emitted, exhausted,
                   ret, calls, successes, applied, before, lookups, upRet, srcChunk, failed,
                   fit0>>
    /\ UNCHANGED statsVars

\* return r from stage k's load() to its caller.
Return(k, r) ==
    /\ pc' = "ret"
    /\ level' = k + 1
    /\ ret' = r
    /\ failed' = [failed EXCEPT ![k] = @ \/ ~r]
    /\ before' = Chunk
    /\ upRet' = ret
    /\ UNCHANGED <<loader, fit, emitted, exhausted, calls, successes, loads, srcChunk, fit0>>
    /\ UNCHANGED statsVars

\* if (!loader->load()) return false;  once the upstream load() has returned false
ReturnFalse(k) ==
    /\ Return(k, FALSE)
    /\ lookups' = 0
    /\ UNCHANGED <<valData, rowData, capacity, currentCol, applied>>

\* The loop over the chunk's entries has stored newVal after n parameter lookups;
\* return true.
ReturnTrue(k, newVal, n) ==
    /\ valData' = newVal
    /\ lookups' = n
    /\ applied' = Append(applied, k)
    /\ Return(k, TRUE)
    /\ UNCHANGED <<rowData, capacity, currentCol>>

\* The loop starts at the second entry.
Min_load_SkipsFirst(k) ==
    /\ level = k
    /\ loader[k] = "Min"
    /\ \/ /\ pc = "call"
          /\ CallUpstream(k)
       \/ /\ pc = "ret"
          /\ ~ret
          /\ ReturnFalse(k)
       \/ /\ pc = "ret"
          /\ ret
          /\ ReturnTrue(k, [i \in 1..capacity |->
                               IF i = 1 THEN valData[i]
                               ELSE StdMin(valData[i], fit.global_params[0])],
                        capacity)

\* The stage pulls a second chunk over the first before it clamps.
Min_load_LoadsTwice(k) ==
    /\ level = k
    /\ loader[k] = "Min"
    /\ \/ /\ pc = "call"
          /\ CallUpstream(k)
       \/ /\ pc = "ret"
          /\ ~ret
          /\ ReturnFalse(k)
       \/ /\ pc = "ret"
          /\ ret
          /\ loads[k - 1] < 2
          /\ CallUpstream(k)
       \/ /\ pc = "ret"
          /\ ret
          /\ loads[k - 1] >= 2
          /\ ReturnTrue(k, [i \in 1..capacity |->
                               StdMin(valData[i], fit.global_params[0])],
                        capacity)

Min_load(k) ==
    /\ level = k
    /\ loader[k] = "Min"
    /\ \/ /\ pc = "call"
          /\ CallUpstream(k)
       \/ /\ pc = "ret"
          /\ ~ret
          /\ ReturnFalse(k)
       \/ /\ pc = "ret"
          /\ ret
          /\ ReturnTrue(k, [i \in 1..capacity |->
                               StdMin(valData[i], fit.global_params[0])],
                        capacity)

\* The parameter is looked up by the entry's position, not by its row.
MinByRow_load_ByPosition(k) ==
    /\ level = k
    /\ loader[k] = "MinByRow"
    /\ \/ /\ pc = "call"
          /\ CallUpstream(k)
       \/ /\ pc = "ret"
          /\ ~ret
          /\ ReturnFalse(k)
       \/ /\ pc = "ret"
          /\ ret
          /\ ReturnTrue(k, [i \in 1..capacity |->
                               StdMin(valData[i], fit.row_params[0, i - 1])],
                        capacity)

\* The clamped value is stored through row_data instead of val_data.
MinByRow_load_WritesRows(k) ==
    /\ level = k
    /\ loader[k] = "MinByRow"
    /\ \/ /\ pc = "call"
          /\ CallUpstream(k)
       \/ /\ pc = "ret"
          /\ ~ret
          /\ ReturnFalse(k)
       \/ /\ pc = "ret"
          /\ ret
          /\ rowData' = [i \in 1..capacity |->
                            LET m == StdMin(valData[i], fit.row_params[0, rowData[i]])
                            IN IF m = NaN THEN 0 ELSE m]
          /\ lookups' = capacity
          /\ applied' = Append(applied, k)
          /\ Return(k, TRUE)
          /\ UNCHANGED <<valData, capacity, currentCol>>

\* An empty chunk is reported as the end of the stream.
MinByRow_load_FalseOnEmpty(k) ==
    /\ level = k
    /\ loader[k] = "MinByRow"
    /\ \/ /\ pc = "call"
          /\ CallUpstream(k)
       \/ /\ pc = "ret"
          /\ (~ret \/ capacity = 0)
          /\ ReturnFalse(k)
       \/ /\ pc = "ret"
          /\ ret
          /\ capacity # 0
          /\ ReturnTrue(k, [i \in 1..capacity |->
                               StdMin(valData[i], fit.row_params[0, rowData[i]])],
                        capacity)

MinByRow_load(k) ==
    /\ level = k
    /\ loader[k] = "MinByRow"
    /\ \/ /\ pc = "call"
          /\ CallUpstream(k)
       \/ /\ pc = "ret"
          /\ ~ret
          /\ ReturnFalse(k)
       \/ /\ pc = "ret"
          /\ ret
          /\ ReturnTrue(k, [i \in 1..capacity |->
                               StdMin(valData[i], fit.row_params[0, rowData[i]])],
                        capacity)

\* The column parameter is always read for column 0.
MinByCol_load_Column0(k) ==
    /\ level = k
    /\ loader[k] = "MinByCol"
    /\ \/ /\ pc = "call"
          /\ CallUpstream(k)
       \/ /\ pc = "ret"
          /\ ~ret
          /\ ReturnFalse(k)
       \/ /\ pc = "ret"
          /\ ret
          /\ LET col_min == fit.col_params[0, 0]
             IN ReturnTrue(k, [i \in 1..capacity |-> StdMin(valData[i], col_min)], 1)

\* The column parameter is read before the upstream result is tested.
MinByCol_load_LooksUpFirst(k) ==
    /\ level = k
    /\ loader[k] = "MinByCol"
    /\ \/ /\ pc = "call"
          /\ CallUpstream(k)
       \/ /\ pc = "ret"
          /\ ~ret
          /\ Return(k, FALSE)
          /\ lookups' = 1
          /\ UNCHANGED <<valData, rowData, capacity, currentCol, applied>>
       \/ /\ pc = "ret"
          /\ ret
          /\ LET col_min == fit.col_params[0, currentCol]
             IN ReturnTrue(k, [i \in 1..capacity |-> StdMin(valData[i], col_min)], 1)

\* Every entry is overwritten with the column parameter.
MinByCol_load_Assigns(k) ==
    /\ level = k
    /\ loader[k] = "MinByCol"
    /\ \/ /\ pc = "call"
          /\ CallUpstream(k)
       \/ /\ pc = "ret"
          /\ ~ret
          /\ ReturnFalse(k)
       \/ /\ pc = "ret"
          /\ ret
          /\ LET col_min == fit.col_params[0, currentCol]
             IN ReturnTrue(k, [i \in 1..capacity |-> col_min], 1)

MinByCol_load(k) ==
    /\ level = k
    /\ loader[k] = "MinByCol"
    /\ \/ /\ pc = "call"
          /\ CallUpstream(k)
       \/ /\ pc = "ret"
          /\ ~ret
          /\ ReturnFalse(k)
       \/ /\ pc = "ret"
          /\ ret
          /\ LET col_min == fit.col_params[0, currentCol]
             IN ReturnTrue(k, [i \in 1..capacity |-> StdMin(valData[i], col_min)], 1)

\* The outermost load() has returned to the caller.
Returned ==
    /\ pc = "ret"
    /\ level = Len(loader) + 1
    /\ pc' = "idle"
    /\ successes' = IF ret THEN successes + 1 ELSE successes
    /\ UNCHANGED <<loader, fit, valData, rowData, capacity, currentCol, emitted, exhausted,
                   level, ret, calls, loads, applied, before, lookups, upRet, srcChunk,
                   failed, fit0>>
    /\ UNCHANGED statsVars

Next ==
    \/ CallLoad
    \/ SourceLoad
    \/ \E k \in 1..Len(loader) : Min_load(k)
    \/ \E k \in 1..Len(loader) : MinByRow_load(k)
    \/ \E k \in 1..Len(loader) : MinByCol_load(k)
    \/ Returned

Spec == Init /\ [][Next]_vars

\* ---------------------------------------------------------------- StatsResult
\* The accessor returns zeros where the statistic is missing.
rowVariance_Zeros(s) ==
    IF s.row_stats.rows < 3
    THEN Value([rows |-> 1, cols |-> s.row_stats.cols,
                coeff |-> [p \in {0} \X (0..(s.row_stats.cols - 1)) |-> 0]])
    ELSE Value(RowOf(s.row_stats, 2))

rowNonzeros(s) ==
    IF s.row_stats.rows < 1
    THEN Throw("Nonzero not calculated in this StatsResult")
    ELSE Value(RowOf(s.row_stats, 0))

rowMean(s) ==
    IF s.row_stats.rows < 2
    THEN Throw("Mean not calculated in this StatsResult")
    ELSE Value(RowOf(s.row_stats, 1))

rowVariance(s) ==
    IF s.row_stats.rows < 3
    THEN Throw("Variance not calculated in this StatsResult")
    ELSE Value(RowOf(s.row_stats, 2))

colNonzeros(s) ==
    IF s.col_stats.rows < 1
    THEN Throw("Nonzero not calculated in this StatsResult")
    ELSE Value(RowOf(s.col_stats, 0))

colMean(s) ==
    IF s.col_stats.rows < 2
    THEN Throw("Mean not calculated in this StatsResult")
    ELSE Value(RowOf(s.col_stats, 1))

colVariance(s) ==
    IF s.col_stats.rows < 3
    THEN Throw("Variance not calculated in this StatsResult")
    ELSE Value(RowOf(s.col_stats, 2))

\* The two arrays are passed in their own order.
transpose_NoSwap(s) == [row_stats |-> s.row_stats, col_stats |-> s.col_stats]

\* StatsResult{col_stats, row_stats}
transpose(s) == [row_stats |-> s.col_stats, col_stats |-> s.row_stats]

StatsInit ==
    /\ result \in [row_stats : Arrays, col_stats : Arrays]
    /\ result0 = result
    /\ derived = NoStats
    /\ transposes = 0
    /\ outcome = NoOutcome
    /\ loader = <<>>
    /\ fit = [global_params |-> <<>>, row_params |-> <<>>, col_params |-> <<>>]
    /\ fit0 = fit
    /\ valData = <<>>
    /\ rowData = <<>>
    /\ capacity = 0
    /\ currentCol = 0
    /\ emitted = 0
    /\ exhausted = FALSE
    /\ pc = "idle"
    /\ level = 0
    /\ ret = FALSE
    /\ calls = 0
    /\ successes = 0
    /\ loads = <<>>
    /\ applied = <<>>
    /\ before = NoChunk
    /\ lookups = 0
    /\ upRet = FALSE
    /\ srcChunk = NoChunk
    /\ failed = <<>>

\* The StatsResult objects at hand: the constructed one and the last transposed one.
Objects == {"result"} \cup (IF transposes > 0 THEN {"derived"} ELSE {})

Object(on) == IF on = "result" THEN result ELSE derived

Called(name, s, out) ==
    /\ outcome' = [self |-> s, name |-> name, out |-> out]
    /\ UNCHANGED <<result, result0, derived, transposes>>
    /\ UNCHANGED chainVars

Call_rowNonzeros == \E on \in Objects : Called("rowNonzeros", Object(on), rowNonzeros(Object(on)))

Call_rowMean == \E on \in Objects : Called("rowMean", Object(on), rowMean(Object(on)))

Call_rowVariance == \E on \in Objects : Called("rowVariance", Object(on), rowVariance(Object(on)))

Call_colNonzeros == \E on \in Objects : Called("colNonzeros", Object(on), colNonzeros(Object(on)))

Call_colMean == \E on \in Objects : Called("colMean", Object(on), colMean(Object(on)))

Call_colVariance == \E on \in Objects : Called("colVariance", Object(on), colVariance(Object(on)))

\* transpose() on the constructed result, or on the result of the last transpose()
Call_transpose ==
    \E on \in Objects :
        /\ on = "derived" => transposes < MaxTranspose
        /\ derived' = transpose(Object(on))
        /\ transposes' = IF on = "result" THEN 1 ELSE transposes + 1
        /\ UNCHANGED <<result, result0, outcome>>
        /\ UNCHANGED chainVars

StatsNext ==
    \/ Call_rowNonzeros
    \/ Call_rowMean
    \/ Call_rowVariance
    \/ Call_colNonzeros
    \/ Call_colMean
    \/ Call_colVariance
    \/ Call_transpose

StatsSpec == StatsInit /\ [][StatsNext]_vars

\* ---------------------------------------------------------------- reference semantics
\* The parameter a stage of the given kind binds to entry i of chunk c.
Param(kind, c, i, f) ==
    CASE kind = "Min" -> f.global_params[0]
      [] kind = "MinByRow" -> f.row_params[0, c.row[i]]
      [] kind = "MinByCol" -> f.col_params[0, c.col]

\* Chunk c after one stage of the given kind.
Clamp(kind, c, f) ==
    [c EXCEPT !.val = [i \in 1..c.cap |-> StdMin(c.val[i], Param(kind, c, i, f))]]

\* Chunk c after the stages ch[1], ..., ch[Len(ch)], innermost first.
RECURSIVE RunChain(_, _, _)
RunChain(ch, c, f) ==
    IF ch = <<>> THEN c
    ELSE Clamp(ch[Len(ch)], RunChain(SubSeq(ch, 1, Len(ch) - 1), c, f), f)

Reverse(ch) == [k \in 1..Len(ch) |-> ch[Len(ch) + 1 - k]]

\* Stage level-1, of the given kind, has just returned from load().
StageReturned(kind) == pc = "ret" /\ level >= 2 /\ loader[level - 1] = kind

AnyStageReturned == pc = "ret" /\ level >= 2

\* The outermost load() has just returned.
ChainReturned == pc = "ret" /\ level = Len(loader) + 1

\* ---------------------------------------------------------------- claims: the chain

\* C1 as stated: after Min::load() returns true every entry is
\* min(entry before, global parameter), is <= the entry before and is <= the
\* global parameter, for every chunk and every parameter value.
C1_GlobalMinBelowBoth ==
    (StageReturned("Min") /\ ret) =>
        /\ capacity = before.cap
        /\ \A i \in 1..capacity :
              /\ valData[i] = StdMin(before.val[i], fit0.global_params[0])
              /\ LessEq(valData[i], before.val[i])
              /\ LessEq(valData[i], fit0.global_params[0])

\* C1 amended: after Min::load() returns true every entry is std::min(entry before,
\* global parameter); it is <= the entry before when that entry is not NaN, and
\* <= the global parameter when neither the entry nor the parameter is NaN.
C1_GlobalMin ==
    (StageReturned("Min") /\ ret) =>
        /\ capacity = before.cap
        /\ \A i \in 1..capacity :
              /\ valData[i] = StdMin(before.val[i], fit0.global_params[0])
              /\ before.val[i] # NaN => LessEq(valData[i], before.val[i])
              /\ (before.val[i] # NaN /\ fit0.global_params[0] # NaN)
                    => LessEq(valData[i], fit0.global_params[0])

\* C1 witness: a Min stage has clamped the first entry of a two-entry chunk to a
\* smaller parameter.
C1_Witness ==
    /\ StageReturned("Min")
    /\ ret
    /\ capacity = 2
    /\ Less(fit0.global_params[0], before.val[1])
    /\ valData[1] = fit0.global_params[0]

\* C2: after MinByRow::load() returns true every entry is std::min(entry before,
\* row parameter of the entry's row); the ceiling depends on the row index alone,
\* not on the chunk, its column or the entry's position.
C2_RowMin ==
    (StageReturned("MinByRow") /\ ret) =>
        /\ capacity = before.cap
        /\ \A i \in 1..capacity :
              valData[i] = StdMin(before.val[i], fit0.row_params[0, rowData[i]])

\* C2 witness: in the second chunk, two entries with equal values in different rows
\* end with different values, the first one clamped by the parameter of row 1.
C2_Witness ==
    /\ StageReturned("MinByRow")
    /\ ret
    /\ emitted = 2
    /\ capacity = 2
    /\ rowData = <<1, 0>>
    /\ before.val[1] = before.val[2]
    /\ valData[1] # valData[2]
    /\ valData[1] = fit0.row_params[0, 1]

\* C3: after MinByCol::load() returns true every entry of the chunk is
\* std::min(entry before, the one column parameter of the chunk's current column).
C3_ColMin ==
    (StageReturned("MinByCol") /\ ret) =>
        /\ capacity = before.cap
        /\ lookups = 1
        /\ \A i \in 1..capacity :
              valData[i] = StdMin(before.val[i], fit0.col_params[0, currentCol])

\* C3 witness: a chunk of column 1 is clamped with column 1's parameter, which
\* differs from column 0's and would have given another result.
C3_Witness ==
    /\ StageReturned("MinByCol")
    /\ ret
    /\ currentCol = 1
    /\ capacity = 2
    /\ Less(fit0.col_params[0, 1], before.val[1])
    /\ valData[1] = fit0.col_params[0, 1]
    /\ fit0.col_params[0, 0] # fit0.col_params[0, 1]

\* C4: a stage's load() returns what its upstream load() returned; when that is
\* false the stage writes nothing to the chunk and looks up no parameter.
C4_FalsePropagates ==
    AnyStageReturned =>
        /\ ret = upRet
        /\ ~ret => (Chunk = before /\ lookups = 0 /\ applied = <<>>)

\* C4 witness: the outer stage of a two-stage chain returns false, as its upstream
\* did, over the non-empty chunk an earlier load left in the buffer.
C4_Witness ==
    /\ StageReturned("MinByCol")
    /\ level = 3
    /\ ~ret
    /\ ~upRet
    /\ successes = 1
    /\ capacity = 2

\* C5: a load() that returns true leaves the row indices, the capacity and the
\* current column as the upstream left them, keeps the value array's length, and
\* leaves the parameter provider as constructed.
C5_OnlyValuesChange ==
    (AnyStageReturned /\ ret) =>
        /\ rowData = before.row
        /\ capacity = before.cap
        /\ currentCol = before.col
        /\ Len(valData) = capacity
        /\ fit = fit0

\* C5 witness: a per-row stage has changed a value of a chunk whose row indices are
\* not all 0.
C5_Witness ==
    /\ StageReturned("MinByRow")
    /\ ret
    /\ capacity = 2
    /\ rowData = <<1, 0>>
    /\ valData # before.val

C7_OrderMatters ==
    calls = 0 =>
    \E c \in Chunks(0) : \E f \in Fits(<<"MinByRow", "MinByCol">>) :
        RunChain(<<"MinByRow", "MinByCol">>, c, f).val
            # RunChain(<<"MinByCol", "MinByRow">>, c, f).val

\* C7 amended: whenever a chain of a per-row and a per-column minimum stage returns
\* true, the chunk holds the values the chain in the reverse order would have left.
C7_OrderIrrelevant ==
    (/\ ChainReturned
     /\ ret
     /\ loader \in {<<"MinByRow", "MinByCol">>, <<"MinByCol", "MinByRow">>})
        => valData = RunChain(Reverse(loader), srcChunk, fit0).val

\* C7 witness: MinByCol over MinByRow has returned a chunk in which the row stage
\* clamped the first entry and left the second, which the column stage clamped.
C7_Witness ==
    /\ ChainReturned
    /\ ret
    /\ loader = <<"MinByRow", "MinByCol">>
    /\ capacity = 2
    /\ Less(fit0.row_params[0, rowData[1]], srcChunk.val[1])
    /\ Less(fit0.col_params[0, currentCol], srcChunk.val[2])
    /\ ~Less(fit0.row_params[0, rowData[2]], srcChunk.val[2])

\* C8: when the outermost load() returns, every stage and the source have been
\* loaded exactly once; if it returns true the stages have mutated the chunk
\* innermost first, the chunk is the one the source emitted last, clamped by the
\* stages in that order, and it is the k-th chunk of the source on the k-th success.
C8_OneChunkPerLoad ==
    ChainReturned =>
        /\ \A k \in 0..Len(loader) : loads[k] = 1
        /\ ret => /\ applied = [k \in 1..Len(loader) |-> k]
                  /\ emitted = successes + 1
                  /\ rowData = srcChunk.row
                  /\ capacity = srcChunk.cap
                  /\ currentCol = srcChunk.col
                  /\ Chunk = RunChain(loader, srcChunk, fit0)
        /\ ~ret => applied = <<>>

\* C8 witness: the second successful load of a two-stage chain exposes the second
\* chunk of the source, with both stages having clamped an entry.
C8_Witness ==
    /\ ChainReturned
    /\ ret
    /\ Len(loader) = 2
    /\ loader[1] # loader[2]
    /\ successes = 1
    /\ emitted = 2
    /\ capacity = 2
    /\ RunChain(<<loader[1]>>, srcChunk, fit0).val # srcChunk.val
    /\ RunChain(<<loader[1]>>, srcChunk, fit0).val # valData

\* ---------------------------------------------------------------- claims: StatsResult
IsRowAccessor(name) == name \in {"rowNonzeros", "rowMean", "rowVariance"}

\* Rows the array must have for the accessor to succeed; it returns the last of them.
Needs(name) ==
    CASE name \in {"rowNonzeros", "colNonzeros"} -> 1
      [] name \in {"rowMean", "colMean"} -> 2
      [] name \in {"rowVariance", "colVariance"} -> 3

Message(name) ==
    CASE name \in {"rowNonzeros", "colNonzeros"} -> "Nonzero not calculated in this StatsResult"
      [] name \in {"rowMean", "colMean"} -> "Mean not calculated in this StatsResult"
      [] name \in {"rowVariance", "colVariance"} -> "Variance not calculated in this StatsResult"

\* C9: an accessor throws "<statistic> not calculated" exactly when its array has
\* fewer than 1/2/3 rows (nonzeros/mean/variance) and otherwise returns row 0/1/2 of
\* that array, never a default; rowVariance() throws on a result with one
\* statistic row.
C9_Accessors ==
    outcome.name # "none" =>
        LET a == IF IsRowAccessor(outcome.name) THEN outcome.self.row_stats
                 ELSE outcome.self.col_stats
            n == Needs(outcome.name)
            o == outcome.out
        IN /\ o.threw <=> a.rows < n
           /\ o.threw => o.what = Message(outcome.name) /\ o.value = NoArray
           /\ ~o.threw =>
                 /\ o.value.rows = 1
                 /\ o.value.cols = a.cols
                 /\ \A j \in 0..(a.cols - 1) : o.value.coeff[0, j] = a.coeff[n - 1, j]
           /\ (outcome.name = "rowVariance" /\ outcome.self.row_stats.rows = 1) => o.threw

\* C9 witness: rowVariance() has thrown on a result that holds nonzero counts only.
C9_Witness ==
    /\ outcome.name = "rowVariance"
    /\ outcome.self.row_stats.rows = 1
    /\ outcome.self.col_stats.rows = 1
    /\ outcome.out.threw
    /\ outcome.out.what = "Variance not calculated in this StatsResult"

\* C10: transpose() leaves its object unchanged and returns a result whose row_stats
\* is the object's col_stats and whose col_stats is its row_stats; transposing twice
\* gives back an equal result, and each row accessor of the transposed result gives
\* what the matching column accessor of the original gives, and vice versa.
C10_Transpose ==
    transposes > 0 =>
        /\ result = result0
        /\ transposes % 2 = 0 => derived = result
        /\ transposes % 2 = 1 =>
              /\ derived.row_stats = result.col_stats
              /\ derived.col_stats = result.row_stats
              /\ rowNonzeros(derived) = colNonzeros(result)
              /\ rowMean(derived) = colMean(result)
              /\ rowVariance(derived) = colVariance(result)
              /\ colNonzeros(derived) = rowNonzeros(result)
              /\ colMean(derived) = rowMean(result)
              /\ colVariance(derived) = rowVariance(result)

\* C10 witness: a result with three row statistics over two matrix rows and one
\* column statistic has been transposed twice.
C10_Witness ==
    /\ transposes = 2
    /\ derived = result
    /\ result.row_stats.rows = 3
    /\ result.row_stats.cols = 2
    /\ result.col_stats.rows = 1
    /\ result.col_stats.cols = 1

====
